---- MODULE Spec2Model ----
(***************************************************************************)
(* MeetingCam: device correlation and selection (device.py), the Runner    *)
(* and its frame loop (runner.py), and the hotkey registry (utils.py).     *)
(*                                                                         *)
(* Strings are sequences of one-character strings, except that the path    *)
(* prefix "/dev/video" is kept as one symbol.  Python's None and the empty *)
(* string are both the empty sequence: every test the code makes on a      *)
(* path (`if device_path:`, `if self.real_path:`) is a truthiness test.    *)
(***************************************************************************)
EXTENDS Integers, Sequences, FiniteSets, TLC

VARIABLES
    type,                       \* DeviceHandler.type (the device family)
    available_devices_real,     \* [paths, labels] of the physical devices
    available_devices_virtual,  \* [paths, labels] of the virtual devices
    mapping,                    \* DeviceHandler.mapping (dict 0..n-1 as a sequence)
    mapping_result,             \* how device_mapping ended, "none" before it ran
    device_path,                \* the requested path handed to init_device
    real_path,                  \* DeviceHandler.real_path
    virtual_path,               \* the value init_device returned
    printed,                    \* what has been printed, in order
    caller,                     \* who calls init_device: "Runner" or "init_device"
    dpc,                        \* where construction/selection stands
    exc,                        \* the exception that ended the process, or "none"
    exit_status,                \* the process exit status, -1 while it runs
    selections,                 \* what each init_device call on the handler did
    ctx_args,                   \* the extra command-line arguments
    check_result,               \* how ArgumentHandler.check ended, "none" before
    dirs,                       \* the directories found in the plugin directory
    plugin_list,                \* the plugin names search_plugins returned
    name_option,                \* create_plugin's --name option, None if not given
    prompt_name,                \* the name typed at create_plugin's prompt
    files,                      \* plugin name -> what its plugin.py holds
    cpc,                        \* where the command-line program stands
    pc,                         \* where Runner.run (or the KeyHandler's owner) stands
    ctx,                        \* the with-blocks entered and not yet left, outermost first
    r_cam,                      \* the capture handle: "none", "open", "released"
    v_cam,                      \* the virtual sink: "none", "open", "closed"
    listener,                   \* the keyboard hook: "none", "constructed", "started", "stopped"
    released,                   \* the resources released, in order
    setup_calls,                \* how often DepthaiCapture.setup has run
    plugin_hotkeys,             \* the Hotkey list handed to KeyHandler
    flags,                      \* the booleans add_trigger set on the KeyHandler
    hotkeys,                    \* KeyHandler.hotkeys: key combination -> trigger_func
    kh_error,                   \* the exception KeyHandler.__init__ raised, or "none"
    toggles,                    \* per key combination, the hotkey events delivered
    raised_at,                  \* the pc at which the exception in flight was raised
    interrupted_at,             \* the pc at which SIGINT was delivered, "none" if not
    raw,                        \* the shape of the image the device delivered last
    frame,                      \* the shape of the image get_frame returned last
    get_frame_calls,            \* how often get_frame has been called
    cam_prop,                   \* the webcam's CAP_PROP_FRAME_HEIGHT/WIDTH
    sink_shape,                 \* height and width the sink was opened with
    sent,                       \* how many frames v_cam.send has published
    acq,                        \* what the last depthai acquisition found and did
    ppc,                        \* where a call of the plugin's process stands
    observed                    \* the flag reads the current process call has made

clivars == <<ctx_args, check_result, dirs, plugin_list, name_option,
             prompt_name, files, cpc>>

devvars == <<type, available_devices_real, available_devices_virtual, mapping,
             mapping_result,
             device_path, real_path, virtual_path, printed, caller, dpc, exc,
             exit_status, selections, clivars>>

loopvars == <<raw, frame, get_frame_calls, sent, acq, ppc, observed,
              cam_prop, sink_shape>>

runvars == <<pc, ctx, r_cam, v_cam, listener, released, setup_calls,
             raised_at, interrupted_at, loopvars>>

keyvars == <<plugin_hotkeys, flags, hotkeys, kh_error, toggles>>

vars == <<devvars, runvars, keyvars>>

---------------------------------------------------------------------------
(* Bounds and input alphabets *)

MaxReal == 2
MaxVirtual == 2
MaxPluginHotkeys == 2
MaxToggles == 3
MaxArgs == 3
MaxDirs == 3

MAX_WIDTH == 1280
MAX_HEIGHT == 720

WEBCAM == "webcam"
DEPTHAI == "depthai"

None == <<>>

Digits == {"0", "1", "2", "3", "4", "5", "6", "7", "8", "9"}

DigitVal(c) ==
    CASE c = "0" -> 0 [] c = "1" -> 1 [] c = "2" -> 2 [] c = "3" -> 3
      [] c = "4" -> 4 [] c = "5" -> 5 [] c = "6" -> 6 [] c = "7" -> 7
      [] c = "8" -> 8 [] c = "9" -> 9

DigitChar(d) ==
    CASE d = 0 -> "0" [] d = 1 -> "1" [] d = 2 -> "2" [] d = 3 -> "3"
      [] d = 4 -> "4" [] d = 5 -> "5" [] d = 6 -> "6" [] d = 7 -> "7"
      [] d = 8 -> "8" [] d = 9 -> "9"

RECURSIVE IntToStr(_)
IntToStr(n) == IF n < 10 THEN <<DigitChar(n)>>
               ELSE IntToStr(n \div 10) \o <<DigitChar(n % 10)>>

\* The node numbers of the physical webcams and of the virtual devices.
WebcamIds == {0, 1, 10}

WebcamPath(n) == <<"/dev/video">> \o IntToStr(n)

\* Virtual card labels: id 0, id 1, id 10, no integer at all, and a label
\* whose first integer (1) is not its last (0).
WebcamLabels == { <<"C", "0">>, <<"C", "1">>, <<"C", "1", "0">>, <<"C">>,
                  <<"1", "C", "0">> }

\* depthai identifiers (mxid) and virtual card labels that contain one,
\* both or none of them.
DepthaiIds == { <<"A", "1">>, <<"B", "2">> }
DepthaiLabels == { <<"M", "A", "1">>, <<"M", "B", "2">>, <<"M">>,
                   <<"A", "1", "B", "2">> }

RealLabel(path) == <<"L">> \o path

InjSeqs(S, n) ==
    { s \in UNION { [1..k -> S] : k \in 0..n } :
        \A i, j \in DOMAIN s : i # j => s[i] # s[j] }

Seqs(S, n) == UNION { [1..k -> S] : k \in 0..n }

---------------------------------------------------------------------------
(* Python string helpers *)

\* int(s): the decimal value of a string of digits; -1 stands for ValueError.
RECURSIVE DecValue(_)
DecValue(s) == IF s = <<>> THEN 0
               ELSE DecValue(SubSeq(s, 1, Len(s) - 1)) * 10 + DigitVal(s[Len(s)])

PyInt(s) == IF s # <<>> /\ \A i \in DOMAIN s : s[i] \in Digits
            THEN DecValue(s) ELSE -1

\* s.replace(old, "") for a one-symbol old.
RECURSIVE RemoveSym(_, _)
RemoveSym(s, old) ==
    IF s = <<>> THEN <<>>
    ELSE (IF s[1] = old THEN <<>> ELSE <<s[1]>>) \o RemoveSym(Tail(s), old)

\* re.findall(r"\d+", label): the maximal runs of digits, left to right.
RECURSIVE FindAllDigits(_)
FindAllDigits(s) ==
    IF s = <<>> THEN <<>>
    ELSE IF s[1] \notin Digits THEN FindAllDigits(Tail(s))
    ELSE LET n == CHOOSE k \in 1..Len(s) :
                    /\ \A i \in 1..k : s[i] \in Digits
                    /\ (k = Len(s) \/ s[k + 1] \notin Digits)
         IN <<SubSeq(s, 1, n)>> \o FindAllDigits(SubSeq(s, n + 1, Len(s)))

\* `sub in s` for strings.
IsSubstring(sub, s) ==
    \E i \in 0..(Len(s) - Len(sub)) : SubSeq(s, i + 1, i + Len(sub)) = sub

\* list.index(x): the first position of x, 0 when absent (ValueError).
IndexOf(list, x) ==
    IF \E i \in DOMAIN list : list[i] = x
    THEN CHOOSE i \in DOMAIN list : list[i] = x /\ \A k \in 1..(i - 1) : list[k] # x
    ELSE 0

Map(f(_), s) == [i \in DOMAIN s |-> f(s[i])]

---------------------------------------------------------------------------
(* DeviceHandler.device_mapping *)

\* int(re.findall(r"\d+", label)[0]) for a label that holds an integer.
FirstInt(label) == PyInt(FindAllDigits(label)[1])

\* int(path.replace("/dev/video", ""))
PathId(path) == PyInt(RemoveSym(path, "/dev/video"))

\* The labels of `labels` (positions, ascending) that contain mxid.
MatchesOf(mxid, labels) ==
    LET F[k \in 0..Len(labels)] ==
            IF k = 0 THEN <<>>
            ELSE F[k - 1] \o (IF IsSubstring(mxid, labels[k]) THEN <<k>> ELSE <<>>)
    IN F[Len(labels)]

\* The depthai loops: for each physical id, in order, the positions of the
\* virtual labels that contain it.
DepthaiIndices(paths_real, labels_virtual) ==
    LET F[k \in 0..Len(paths_real)] ==
            IF k = 0 THEN <<>>
            ELSE F[k - 1] \o MatchesOf(paths_real[k], labels_virtual)
    IN F[Len(paths_real)]

\* Mutant: the last integer of the label instead of the first.
WebcamIndicesLastInt(paths_real, labels_virtual) ==
    LET ids_real == Map(PathId, paths_real)
        LastInt(label) == LET all == FindAllDigits(label) IN PyInt(all[Len(all)])
    IN [i \in DOMAIN labels_virtual |-> IndexOf(ids_real, LastInt(labels_virtual[i]))]

\* The webcam comprehension: for each virtual label, in order, the position
\* in ids_real of the label's first integer (0: not there).
WebcamIndices(paths_real, labels_virtual) ==
    LET ids_real == Map(PathId, paths_real)
    IN [i \in DOMAIN labels_virtual |-> IndexOf(ids_real, FirstInt(labels_virtual[i]))]

\* device_map[i] for the i-th element j of mapping_indices.
MappingEntry(real, virt, i, j) ==
    [path_real |-> real.paths[j], label_real |-> real.labels[j],
     path_virtual |-> virt.paths[i], label_virtual |-> virt.labels[i]]

\* The closing loop over enumerate(mapping_indices).
BuildMap(real, virt, mapping_indices) ==
    IF \E i \in DOMAIN mapping_indices :
           mapping_indices[i] > Len(real.paths) \/ i > Len(virt.paths)
    THEN [outcome |-> "IndexError", map |-> <<>>]
    ELSE [outcome |-> "returned",
          map |-> [i \in DOMAIN mapping_indices |->
                      MappingEntry(real, virt, i, mapping_indices[i])]]

\* Mutant: the labels without a physical device are left out.
WebcamMismatchDrop(real, virt, mapping_indices) ==
    BuildMap(real, virt, SelectSeq(mapping_indices, LAMBDA j : j > 0))

\* What the webcam branch does when ids_real.index raises.
WebcamMismatch(real, virt, mapping_indices) ==
    [outcome |-> "mismatch_exit", map |-> <<>>]

DeviceMapping(t, real, virt) ==
    IF t = WEBCAM THEN
        IF \E i \in DOMAIN virt.labels : FindAllDigits(virt.labels[i]) = <<>>
        THEN [outcome |-> "IndexError", map |-> <<>>]
        ELSE IF \E i \in DOMAIN real.paths : PathId(real.paths[i]) = -1
        THEN [outcome |-> "ValueError", map |-> <<>>]
        ELSE LET mapping_indices == WebcamIndices(real.paths, virt.labels)
             IN IF \E i \in DOMAIN mapping_indices : mapping_indices[i] = 0
                THEN WebcamMismatch(real, virt, mapping_indices)
                ELSE BuildMap(real, virt, mapping_indices)
    ELSE IF t = DEPTHAI THEN
        BuildMap(real, virt, DepthaiIndices(real.paths, virt.labels))
    ELSE [outcome |-> "NotImplementedError", map |-> <<>>]

---------------------------------------------------------------------------
(* DeviceHandler.init_device *)

PathsReal(m) == [i \in DOMAIN m |-> m[i].path_real]

\* The keys of the dict comprehension, in insertion order: each physical
\* path once, at the place of its first entry.
DeviceMapKeys(m) ==
    LET F[k \in 0..Len(m)] ==
            IF k = 0 THEN <<>>
            ELSE IF \E i \in 1..(k - 1) : m[i].path_real = m[k].path_real
                 THEN F[k - 1] ELSE F[k - 1] \o <<m[k].path_real>>
    IN F[Len(m)]

\* Mutant: the virtual path of the first entry of the map.
DeviceMapValueFirst(m, path) == m[1].path_virtual

\* device_map[path]: a later entry with the same key overwrites the value.
DeviceMapValue(m, path) ==
    LET last == CHOOSE i \in DOMAIN m :
                    /\ m[i].path_real = path
                    /\ \A k \in (i + 1)..Len(m) : m[k].path_real # path
    IN m[last].path_virtual

InDeviceMap(m, path) == \E i \in DOMAIN m : m[i].path_real = path

NotAvailableDiagnostic ==
    <<"device_not_available", "available_devices", "add_virtual_devices",
      "run_main_command">>

AutoSelectDiagnostic == <<"available_devices", "run_main_command">>

\* sys.exit() and sys.exit(0): SystemExit, exit status 0.
SysExit ==
    /\ exc' = "SystemExit"
    /\ exit_status' = 0

\* The branch taken when no device path is given and the map is not empty.
InitDeviceAuto ==
    /\ real_path' = DeviceMapKeys(mapping)[1]
    /\ printed' = printed \o AutoSelectDiagnostic
    /\ dpc' = "exited"
    /\ SysExit
    /\ UNCHANGED virtual_path

\* Mutant: the diagnostic is printed and the run goes on with the request.
InitDeviceUnavailableGoesOn ==
    /\ printed' = printed \o NotAvailableDiagnostic
    /\ dpc' = "selected"
    /\ real_path' = device_path
    /\ UNCHANGED <<virtual_path, exc, exit_status>>

\* Mutant: the requested path is recorded before it is looked up.
InitDeviceUnavailableRecords ==
    /\ printed' = printed \o NotAvailableDiagnostic
    /\ dpc' = "exited"
    /\ SysExit
    /\ real_path' = device_path
    /\ UNCHANGED virtual_path

\* The two branches that print the not-available diagnostic.
InitDeviceUnavailable ==
    /\ printed' = printed \o NotAvailableDiagnostic
    /\ dpc' = "exited"
    /\ SysExit
    /\ UNCHANGED <<real_path, virtual_path>>

\* Mutant: a handler that has selected a device refuses a second selection.
InitDeviceMatchOnce ==
    IF real_path = None
    THEN /\ real_path' = device_path
         /\ virtual_path' = DeviceMapValue(mapping, device_path)
         /\ dpc' = "selected"
         /\ UNCHANGED <<printed, exc, exit_status>>
    ELSE InitDeviceUnavailable

\* The branch taken when the given path is a key of the map.
InitDeviceMatch ==
    /\ real_path' = device_path
    /\ virtual_path' = DeviceMapValue(mapping, device_path)
    /\ dpc' = "selected"
    /\ UNCHANGED <<printed, exc, exit_status>>

\* What a call of init_device did: how it ended, the real_path it left
\* and the value it returned (None when it did not return).
Selection(outcome, real, virtual) ==
    [outcome |-> outcome, real |-> real,
     returned |-> IF outcome = "selected" THEN virtual ELSE None]

\* The body of init_device.
InitDeviceBody ==
    /\ IF device_path # None
       THEN IF InDeviceMap(mapping, device_path)
            THEN InitDeviceMatch
            ELSE InitDeviceUnavailable
       ELSE IF DeviceMapKeys(mapping) # <<>>
            THEN InitDeviceAuto
            ELSE InitDeviceUnavailable
    /\ selections' = Append(selections,
                            Selection(dpc', real_path', virtual_path'))
    /\ UNCHANGED <<type, available_devices_real, available_devices_virtual,
                   mapping, mapping_result, device_path, caller>>
    /\ UNCHANGED <<clivars, runvars, keyvars>>

InitDevice ==
    /\ dpc = "constructed"
    /\ InitDeviceBody

\* init_device is called once more on the same handler with the same
\* argument (a caller that used the handler directly and caught the exit).
InitDeviceAgain ==
    /\ mapping_result = "returned"
    /\ dpc \in {"selected", "exited"}
    /\ Len(selections) = 1
    /\ InitDeviceBody

---------------------------------------------------------------------------
(* Runner.__init__ up to the handler, and DeviceHandler.__init__ *)

\* An uncaught exception ends the process with status 1.
Raise(e) ==
    /\ exc' = e
    /\ exit_status' = 1
    /\ dpc' = "raised"

MismatchMessage == <<"mismatch">>

\* Runner.__init__ reads device_path.value of anything that is not a str;
\* None has no such attribute.  Then the handler of the family is built:
\* update_available (the enumerations), then DeviceHandler.__init__.
HandlerInit ==
    /\ dpc = "start"
    /\ IF caller = "Runner" /\ device_path = None
       THEN Raise("AttributeError")
            /\ UNCHANGED <<mapping, mapping_result, printed>>
       ELSE LET r == DeviceMapping(type, available_devices_real,
                                   available_devices_virtual)
            IN /\ mapping_result' = r.outcome
               /\ CASE r.outcome = "returned" ->
                      /\ mapping' = r.map
                      /\ dpc' = "constructed"
                      /\ UNCHANGED <<printed, exc, exit_status>>
                 [] r.outcome = "mismatch_exit" ->
                      /\ printed' = printed \o MismatchMessage
                      /\ dpc' = "exited"
                      /\ SysExit
                      /\ UNCHANGED mapping
                 [] OTHER ->
                      /\ Raise(r.outcome)
                      /\ UNCHANGED <<mapping, printed>>
    /\ UNCHANGED <<clivars, selections, type, available_devices_real, available_devices_virtual,
                   device_path, real_path, virtual_path, caller>>
    /\ UNCHANGED <<runvars, keyvars>>

\* SIGINT while DeviceHandler.__init__ is between signal.signal and the
\* assignment of self.pprint (device_mapping is being computed): _interrupt
\* reads self.pprint, which the handler object does not have yet.
InterruptInInit ==
    /\ dpc = "start"
    /\ ~(caller = "Runner" /\ device_path = None)
    /\ interrupted_at = "none"
    /\ interrupted_at' = "device_mapping"
    /\ Raise("AttributeError")
    /\ UNCHANGED <<clivars, selections, type, available_devices_real, available_devices_virtual,
                   mapping, mapping_result, device_path, real_path,
                   virtual_path, printed, caller>>
    /\ UNCHANGED <<pc, ctx, r_cam, v_cam, listener, released, setup_calls,
                   raised_at, loopvars, keyvars>>

\* SIGINT once the handler is constructed and before init_device is
\* called: _interrupt prints device_stopped and calls sys.exit(0).
InterruptConstructed ==
    /\ dpc = "constructed"
    /\ interrupted_at = "none"
    /\ interrupted_at' = "constructed"
    /\ printed' = Append(printed, "device_stopped")
    /\ exc' = "SystemExit"
    /\ exit_status' = 0
    /\ dpc' = "exited"
    /\ UNCHANGED <<clivars, selections, type, available_devices_real, available_devices_virtual,
                   mapping, mapping_result, device_path, real_path,
                   virtual_path, caller>>
    /\ UNCHANGED <<pc, ctx, r_cam, v_cam, listener, released, setup_calls,
                   raised_at, loopvars, keyvars>>

---------------------------------------------------------------------------
(* KeyHandler (utils.py) *)

\* Python objects that `in` compares: a str and a function are never equal.
StrObj(v) == [tag |-> "str", of |-> v]

\* The closure trigger_func that add_trigger stores; it captures `variable`.
TriggerFunc(variable) == [tag |-> "function", of |-> variable]

Put(d, k, v) == [x \in DOMAIN d \cup {k} |-> IF x = k THEN v ELSE d[x]]

DefaultHotkeys ==
    << [hotkey |-> "<ctrl>+<alt>+r", variable |-> "bgr2rgb", enabled |-> FALSE],
       [hotkey |-> "<ctrl>+<alt>+m", variable |-> "mirror", enabled |-> TRUE] >>

\* The Hotkey objects a plugin may declare.
PluginHotkeys ==
    [hotkey : {"<ctrl>+<alt>+m", "<ctrl>+<alt>+z", "<ctrl>+<alt>+p"},
     variable : {"mirror", "z_trigger"},
     enabled : BOOLEAN]

\* Hotkey objects whose variable is a str that validate accepts and that
\* names an attribute of the handler as well.
AttributeHotkeys ==
    [hotkey : {"<ctrl>+<alt>+z", "<ctrl>+<alt>+p"},
     variable : {"z_trigger", "hotkeys", "verbose", "start", "stop"},
     enabled : BOOLEAN]

\* CustomPlugin.hotkeys of the plugin template.
TemplateHotkeys ==
    << [hotkey |-> "<Ctrl>+<Alt>+z", variable |-> "z_trigger", enabled |-> TRUE] >>

\* FaceDetection.hotkeys
FaceDetectionHotkeys ==
    << [hotkey |-> "<ctrl>+<alt>+f", variable |-> "f_trigger", enabled |-> TRUE],
       [hotkey |-> "<ctrl>+<alt>+n", variable |-> "n_trigger", enabled |-> TRUE] >>

\* The hotkeys attribute of the plugins of a family; PluginBase.__init__
\* leaves it empty.
PluginDeclarations(t) ==
    IF t = WEBCAM THEN {<<>>, TemplateHotkeys, FaceDetectionHotkeys}
    ELSE {<<>>}

HotkeyCombinations ==
    {"<ctrl>+<alt>+r", "<ctrl>+<alt>+m", "<ctrl>+<alt>+z", "<ctrl>+<alt>+p",
     "<Ctrl>+<Alt>+z", "<ctrl>+<alt>+f", "<ctrl>+<alt>+n"}

\* `variable in self.hotkeys.values()`
VariableExists(hk, variable) ==
    \E k \in DOMAIN hk : hk[k] = StrObj(variable)

\* Mutant: only the variable name is looked up.
ValidateNameOnly(hk, hotkey, variable) ==
    IF VariableExists(hk, variable) THEN "ValueError" ELSE "ok"

\* KeyHandler.validate: "ok" or the exception raised.
Validate(hk, hotkey, variable) ==
    IF VariableExists(hk, variable) THEN "ValueError"
    ELSE IF hotkey \in DOMAIN hk THEN "ValueError"
    ELSE "ok"

\* The attributes of a KeyHandler besides the flags: the registry dict,
\* the verbose setting (PluginBase hands over False) and the inherited
\* lifecycle methods.
HandlerAttributes ==
    [hotkeys |-> [tag |-> "dict"], verbose |-> [tag |-> "bool", of |-> FALSE],
     start |-> [tag |-> "method"], stop |-> [tag |-> "method"]]

\* getattr(self, name) on a handler whose setattr calls are in fl: flags
\* and the other attributes live in the one namespace of the object.
GetAttr(fl, name) ==
    IF name \in DOMAIN fl THEN [tag |-> "bool", of |-> fl[name]]
    ELSE IF name \in DOMAIN HandlerAttributes THEN HandlerAttributes[name]
    ELSE [tag |-> "missing"]

\* KeyHandler.add_trigger on the handler state kh; once an exception is in
\* flight the remaining registrations of __init__ do not run.  After
\* setattr(self, variable, enabled) the statement
\* `self.hotkeys[hotkey] = trigger_func` needs self.hotkeys to be the dict.
AddTrigger(kh, h) ==
    IF kh.error # "none" THEN kh
    ELSE IF Validate(kh.hotkeys, h.hotkey, h.variable) # "ok"
    THEN [kh EXCEPT !.error = Validate(kh.hotkeys, h.hotkey, h.variable)]
    ELSE IF h.variable = "hotkeys" \/ "hotkeys" \in DOMAIN kh.flags
    THEN [flags |-> Put(kh.flags, h.variable, h.enabled),
          hotkeys |-> kh.hotkeys,
          error |-> "TypeError"]
    ELSE [flags |-> Put(kh.flags, h.variable, h.enabled),
          hotkeys |-> Put(kh.hotkeys, h.hotkey, TriggerFunc(h.variable)),
          error |-> "none"]

\* KeyHandler.__init__: the default hotkeys, then the plugin's.
KeyHandlerNew(plugin) ==
    LET all == DefaultHotkeys \o plugin
        F[k \in 0..Len(all)] ==
            IF k = 0 THEN [flags |-> <<>>, hotkeys |-> <<>>, error |-> "none"]
            ELSE AddTrigger(F[k - 1], all[k])
    IN F[Len(all)]

\* The number of hotkey events delivered so far.
RECURSIVE TotalToggles(_, _)
TotalToggles(t, keys) ==
    IF keys = {} THEN 0
    ELSE LET k == CHOOSE x \in keys : TRUE
         IN t[k] + TotalToggles(t, keys \ {k})

\* A hotkey event: the hook calls the trigger_func stored for the key,
\* `setattr(self, variable, not getattr(self, variable))`.
Toggle(key) ==
    /\ listener = "started"
    /\ key \in DOMAIN hotkeys
    /\ TotalToggles(toggles, DOMAIN toggles) < MaxToggles
    /\ flags' = [flags EXCEPT ![hotkeys[key].of] = ~@]
    /\ toggles' = [toggles EXCEPT ![key] = @ + 1]
    /\ printed' = IF GetAttr(flags', "verbose").of
                  THEN Append(printed, "Triggered") ELSE printed
    /\ UNCHANGED <<clivars, selections, type, available_devices_real, available_devices_virtual,
                   mapping, mapping_result, device_path, real_path,
                   virtual_path, caller, dpc, exc, exit_status>>
    /\ UNCHANGED <<runvars, plugin_hotkeys, hotkeys, kh_error>>

\* PluginBase.keyhandler(): KeyHandler(self.hotkeys, self.verbose).
PluginKeyHandler ==
    /\ pc = "run"
    /\ listener = "none"
    /\ kh_error = "none"
    /\ LET kh == KeyHandlerNew(plugin_hotkeys)
       IN /\ flags' = kh.flags
          /\ hotkeys' = kh.hotkeys
          /\ kh_error' = kh.error
          /\ listener' = IF kh.error = "none" THEN "constructed" ELSE "none"
    /\ UNCHANGED <<devvars, plugin_hotkeys, toggles, pc, ctx, r_cam, v_cam,
                   released, setup_calls, raised_at, interrupted_at>>
    /\ UNCHANGED loopvars

\* listener.start() on a handler someone else owns; calling an attribute
\* that is a bool raises TypeError.
KeyStart ==
    /\ pc = "run"
    /\ listener = "constructed"
    /\ kh_error = "none"
    /\ IF GetAttr(flags, "start").tag = "method"
       THEN listener' = "started" /\ UNCHANGED kh_error
       ELSE kh_error' = "TypeError" /\ UNCHANGED listener
    /\ UNCHANGED <<devvars, plugin_hotkeys, flags, hotkeys, toggles, pc, ctx,
                   r_cam, v_cam, released, setup_calls, raised_at,
                   interrupted_at>>
    /\ UNCHANGED loopvars

\* KeyHandler.__exit__: self.stop().
KeyStop ==
    /\ pc = "run"
    /\ listener \in {"constructed", "started"}
    /\ IF GetAttr(flags, "stop").tag = "method"
       THEN /\ listener' = "stopped"
            /\ released' = Append(released, "hook")
            /\ UNCHANGED kh_error
       ELSE /\ kh_error' = "TypeError"
            /\ UNCHANGED <<listener, released>>
    /\ UNCHANGED <<devvars, plugin_hotkeys, flags, hotkeys, toggles, pc, ctx,
                   r_cam, v_cam, setup_calls, raised_at, interrupted_at>>
    /\ UNCHANGED loopvars

---------------------------------------------------------------------------
(* The plugins' process, called with the plugin's keyhandler *)

\* The attributes of the keyhandler a call of process reads, in order:
\* CustomPlugin.process tests z_trigger and then `not z_trigger`;
\* FaceDetection.process (a face was found, a name is set) tests
\* f_trigger and n_trigger.
ProcessReads(declared) ==
    IF declared = TemplateHotkeys THEN <<"z_trigger", "z_trigger">>
    ELSE IF declared = FaceDetectionHotkeys THEN <<"f_trigger", "n_trigger">>
    ELSE <<>>

\* process(image, detection, keyhandler) is entered.
ProcessCall ==
    /\ listener = "started"
    /\ ppc \in {"idle", "returned"}
    /\ ppc' = "running"
    /\ observed' = <<>>
    /\ UNCHANGED <<devvars, keyvars, pc, ctx, r_cam, v_cam, listener,
                   released, setup_calls, raised_at, interrupted_at, raw,
                   frame, get_frame_calls, sent, acq, cam_prop, sink_shape>>

\* The next `if keyhandler.<flag>` of process reads the attribute.
ProcessRead ==
    /\ ppc = "running"
    /\ Len(observed) < Len(ProcessReads(plugin_hotkeys))
    /\ LET name == ProcessReads(plugin_hotkeys)[Len(observed) + 1]
       IN IF name \in DOMAIN flags
          THEN /\ observed' = Append(observed,
                                     [name |-> name, value |-> flags[name]])
               /\ UNCHANGED ppc
          ELSE /\ ppc' = "raised"
               /\ UNCHANGED observed
    /\ UNCHANGED <<devvars, keyvars, pc, ctx, r_cam, v_cam, listener,
                   released, setup_calls, raised_at, interrupted_at, raw,
                   frame, get_frame_calls, sent, acq, cam_prop, sink_shape>>

\* `return image`
ProcessReturn ==
    /\ ppc = "running"
    /\ Len(observed) = Len(ProcessReads(plugin_hotkeys))
    /\ ppc' = "returned"
    /\ UNCHANGED <<devvars, keyvars, pc, ctx, r_cam, v_cam, listener,
                   released, setup_calls, raised_at, interrupted_at, raw,
                   frame, get_frame_calls, sent, acq, observed, cam_prop,
                   sink_shape>>

---------------------------------------------------------------------------
(* Runner.run (runner.py) *)

\* An exception raised inside run(): it leaves the with-blocks entered.
RaiseInRun(e) ==
    /\ exc' = e
    /\ raised_at' = pc
    /\ pc' = "unwinding"

\* The shapes (height, width) of the images a device may deliver: under,
\* at and over the ceiling on each axis.
FrameShapes == [h : {480, 720, 721}, w : {640, 1280, 1281}]

NoFrame == [h |-> 0, w |-> 0]

Min(a, b) == IF a < b THEN a ELSE b

\* self.device_handler.get_device() and entering `with ... as r_cam`.
GetDevice ==
    /\ dpc = "selected"
    /\ pc = "run"
    /\ listener = "none"
    /\ IF real_path # None
       THEN /\ r_cam' = "open"
            /\ \E prop \in FrameShapes :
                  cam_prop' = IF type = WEBCAM THEN prop ELSE NoFrame
            /\ ctx' = Append(ctx, "capture")
            /\ pc' = "setup"
            /\ UNCHANGED <<exc, raised_at>>
       ELSE /\ RaiseInRun("LookupError")
            /\ UNCHANGED <<r_cam, ctx, cam_prop>>
    /\ UNCHANGED <<clivars, selections, type, available_devices_real, available_devices_virtual,
                   mapping, mapping_result, device_path, real_path,
                   virtual_path, printed, caller, dpc, exit_status>>
    /\ UNCHANGED <<v_cam, listener, released, setup_calls, interrupted_at,
                   keyvars>>
    /\ UNCHANGED <<raw, frame, get_frame_calls, sent, acq, ppc, observed,
                   sink_shape>>

\* Mutant: setup is left to the first acquisition and never called here.
SetupSkipped ==
    /\ pc = "setup"
    /\ pc' = "open_sink"
    /\ UNCHANGED <<devvars, keyvars, ctx, r_cam, v_cam, listener, released,
                   setup_calls, raised_at, interrupted_at, loopvars>>

\* `if self.plugin.type == DEPTHAI: r_cam.setup(...)`
Setup ==
    /\ pc = "setup"
    /\ setup_calls' = IF type = DEPTHAI THEN setup_calls + 1 ELSE setup_calls
    /\ pc' = "open_sink"
    /\ UNCHANGED <<devvars, keyvars, ctx, r_cam, v_cam, listener, released,
                   raised_at, interrupted_at>>
    /\ UNCHANGED loopvars

\* r_cam.height and r_cam.width: VideoCapture takes the camera's size
\* capped by the ceiling, DepthaiCapture takes the ceiling.
CaptureShape ==
    IF type = WEBCAM
    THEN [h |-> Min(cam_prop.h, MAX_HEIGHT), w |-> Min(cam_prop.w, MAX_WIDTH)]
    ELSE [h |-> MAX_HEIGHT, w |-> MAX_WIDTH]

\* pyvirtualcam.Camera(...) and entering `with ... as v_cam`; opening the
\* loopback device may fail.
OpenSink ==
    /\ pc = "open_sink"
    /\ \E opened \in BOOLEAN :
         IF opened
         THEN /\ v_cam' = "open"
              /\ sink_shape' = CaptureShape
              /\ ctx' = Append(ctx, "sink")
              /\ pc' = "new_listener"
              /\ UNCHANGED <<exc, raised_at>>
         ELSE /\ RaiseInRun("RuntimeError")
              /\ UNCHANGED <<v_cam, ctx, sink_shape>>
    /\ UNCHANGED <<clivars, selections, type, available_devices_real, available_devices_virtual,
                   mapping, mapping_result, device_path, real_path,
                   virtual_path, printed, caller, dpc, exit_status>>
    /\ UNCHANGED <<r_cam, listener, released, setup_calls, interrupted_at,
                   keyvars>>
    /\ UNCHANGED <<raw, frame, get_frame_calls, sent, acq, ppc, observed,
                   cam_prop>>

\* `with KeyHandler() as listener`: no plugin hotkeys are handed over.
NewListener ==
    /\ pc = "new_listener"
    /\ LET kh == KeyHandlerNew(<<>>)
       IN /\ flags' = kh.flags
          /\ hotkeys' = kh.hotkeys
          /\ kh_error' = kh.error
          /\ IF kh.error = "none"
             THEN /\ listener' = "constructed"
                  /\ ctx' = Append(ctx, "hook")
                  /\ pc' = "start"
                  /\ UNCHANGED <<exc, raised_at>>
             ELSE /\ RaiseInRun(kh.error)
                  /\ UNCHANGED <<listener, ctx>>
    /\ UNCHANGED <<clivars, selections, type, available_devices_real, available_devices_virtual,
                   mapping, mapping_result, device_path, real_path,
                   virtual_path, printed, caller, dpc, exit_status>>
    /\ UNCHANGED <<r_cam, v_cam, released, setup_calls, interrupted_at,
                   plugin_hotkeys, toggles>>
    /\ UNCHANGED loopvars

\* listener.start() and device_handler.device_running().
ListenerStart ==
    /\ pc = "start"
    /\ listener' = "started"
    /\ printed' = Append(printed, "device_running")
    /\ pc' = "get_frame"
    /\ UNCHANGED <<clivars, selections, type, available_devices_real, available_devices_virtual,
                   mapping, mapping_result, device_path, real_path,
                   virtual_path, caller, dpc, exc, exit_status>>
    /\ UNCHANGED <<ctx, r_cam, v_cam, released, setup_calls, raised_at,
                   interrupted_at, keyvars>>
    /\ UNCHANGED loopvars

\* Mutant: dsize is read as (height, width).
ResizeTransposed(image, dsize) == [h |-> dsize[1], w |-> dsize[2]]

\* cv2.resize(image, dsize): dsize is (width, height), the result has
\* shape (height, width).
Resize(image, dsize) == [h |-> dsize[2], w |-> dsize[1]]

\* ImageHandler.correct_img_size
correct_img_size(image) ==
    IF image.h > MAX_HEIGHT \/ image.w > MAX_WIDTH
    THEN LET h == Min(image.h, MAX_HEIGHT)
             w == Min(image.w, MAX_WIDTH)
         IN Resize(image, <<w, h>>)
    ELSE image

NoAcquisition ==
    [rgb |-> FALSE, det |-> FALSE, waited |-> FALSE, returned |-> FALSE]

\* Mutant: a read that grabbed nothing is tried again.
VideoCaptureGetFrameRetries(grabbed, shape) ==
    /\ acq' = [rgb |-> grabbed, det |-> FALSE, waited |-> FALSE,
               returned |-> grabbed]
    /\ IF grabbed
       THEN /\ raw' = shape
            /\ frame' = correct_img_size(shape)
            /\ pc' = "iterate"
       ELSE UNCHANGED <<raw, frame, pc>>
    /\ UNCHANGED <<exc, raised_at>>

\* VideoCapture.get_frame: read(), RuntimeError if nothing was grabbed,
\* else the size-corrected frame.
VideoCaptureGetFrame(grabbed, shape) ==
    /\ acq' = [rgb |-> grabbed, det |-> FALSE, waited |-> FALSE,
               returned |-> grabbed]
    /\ IF grabbed
       THEN /\ raw' = shape
            /\ frame' = correct_img_size(shape)
            /\ pc' = "iterate"
            /\ UNCHANGED <<exc, raised_at>>
       ELSE /\ RaiseInRun("RuntimeError")
            /\ UNCHANGED <<raw, frame>>

\* DepthaiCapture.get_frame with Yolov5.acquisition: qRgb.get() and
\* qDet.get(), then image and detections are bound only for results that
\* are not None.  What get() does on an empty queue is the library's:
\* it waits for a message ("blocks") or hands back None ("None").
DepthaiGetFrame(rgbAvail, detAvail, get, shape) ==
    IF rgbAvail /\ detAvail
    THEN /\ acq' = [rgb |-> TRUE, det |-> TRUE, waited |-> FALSE,
                    returned |-> TRUE]
         /\ raw' = shape
         /\ frame' = correct_img_size(shape)
         /\ pc' = "iterate"
         /\ UNCHANGED <<exc, raised_at>>
    ELSE IF get = "blocks"
    THEN /\ acq' = [rgb |-> rgbAvail, det |-> detAvail, waited |-> TRUE,
                    returned |-> TRUE]
         /\ raw' = shape
         /\ frame' = correct_img_size(shape)
         /\ pc' = "iterate"
         /\ UNCHANGED <<exc, raised_at>>
    ELSE /\ acq' = [rgb |-> rgbAvail, det |-> detAvail, waited |-> FALSE,
                    returned |-> FALSE]
         /\ RaiseInRun("UnboundLocalError")
         /\ UNCHANGED <<raw, frame>>

\* Mutant: the frame at hand is sent although the acquisition raised.
GetFrameSendsOnFailure ==
    /\ pc = "get_frame"
    /\ get_frame_calls' = get_frame_calls + 1
    /\ \E grabbed, inDet \in BOOLEAN, get \in {"blocks", "None"},
          shape \in FrameShapes :
         /\ IF type = WEBCAM
            THEN shape = cam_prop /\ VideoCaptureGetFrame(grabbed, shape)
            ELSE DepthaiGetFrame(grabbed, inDet, get, shape)
         /\ sent' = IF exc' # exc THEN sent + 1 ELSE sent
    /\ UNCHANGED <<clivars, selections, type, available_devices_real, available_devices_virtual,
                   mapping, mapping_result, device_path, real_path,
                   virtual_path, printed, caller, dpc, exit_status>>
    /\ UNCHANGED <<ctx, r_cam, v_cam, listener, released, setup_calls,
                   interrupted_at, ppc, observed, cam_prop, sink_shape,
                   keyvars>>

\* `frame, detection = r_cam.get_frame()`
GetFrame ==
    /\ pc = "get_frame"
    /\ get_frame_calls' = get_frame_calls + 1
    /\ \E grabbed, inDet \in BOOLEAN, get \in {"blocks", "None"},
          shape \in FrameShapes :
         IF type = WEBCAM
         THEN shape = cam_prop /\ VideoCaptureGetFrame(grabbed, shape)
         ELSE DepthaiGetFrame(grabbed, inDet, get, shape)
    /\ UNCHANGED <<clivars, selections, type, available_devices_real, available_devices_virtual,
                   mapping, mapping_result, device_path, real_path,
                   virtual_path, printed, caller, dpc, exit_status>>
    /\ UNCHANGED <<ctx, r_cam, v_cam, listener, released, setup_calls,
                   interrupted_at, sent, ppc, observed, cam_prop, sink_shape,
                   keyvars>>

\* The attributes of the listener the loop body reads, in order.
LoopReads == <<"bgr2rgb_sw", "f_trig", "l_trig", "n_trig", "mirror_sw">>

\* The rest of the loop body: the reads of the listener's attributes, the
\* plugin's process, the send and the pacing wait.  Reading an attribute
\* the KeyHandler does not have raises AttributeError; process may raise.
Iterate ==
    /\ pc = "iterate"
    /\ IF \E i \in DOMAIN LoopReads : LoopReads[i] \notin DOMAIN flags
       THEN RaiseInRun("AttributeError") /\ UNCHANGED sent
       ELSE \E processed \in BOOLEAN :
              IF processed
              THEN /\ sent' = sent + 1
                   /\ pc' = "get_frame"
                   /\ UNCHANGED <<exc, raised_at>>
              ELSE RaiseInRun("Exception") /\ UNCHANGED sent
    /\ UNCHANGED <<clivars, selections, type, available_devices_real, available_devices_virtual,
                   mapping, mapping_result, device_path, real_path,
                   virtual_path, printed, caller, dpc, exit_status>>
    /\ UNCHANGED <<ctx, r_cam, v_cam, listener, released, setup_calls,
                   interrupted_at, raw, frame, get_frame_calls, acq, ppc,
                   cam_prop, sink_shape,
                   observed, keyvars>>

\* Mutant: no handler is installed and Python raises KeyboardInterrupt.
InterruptDefault == "KeyboardInterrupt"

\* What _interrupt raises in the main thread: sys.exit(0).
InterruptException == "SystemExit"

\* SIGINT while run() executes: DeviceHandler._interrupt prints
\* device_stopped and calls sys.exit(0) in the main thread.
Interrupt ==
    /\ dpc = "selected"
    /\ pc \in {"run", "setup", "open_sink", "new_listener", "start",
               "get_frame", "iterate"}
    /\ interrupted_at = "none"
    /\ interrupted_at' = pc
    /\ printed' = Append(printed, "device_stopped")
    /\ RaiseInRun(InterruptException)
    /\ UNCHANGED <<clivars, selections, type, available_devices_real, available_devices_virtual,
                   mapping, mapping_result, device_path, real_path,
                   virtual_path, caller, dpc, exit_status>>
    /\ UNCHANGED <<ctx, r_cam, v_cam, listener, released, setup_calls,
                   keyvars>>
    /\ UNCHANGED loopvars

Pop(s) == SubSeq(s, 1, Len(s) - 1)

\* Mutant: __exit__ does not stop the listener.
KeyHandlerExitNoStop ==
    /\ UNCHANGED listener
    /\ UNCHANGED released

\* KeyHandler.__exit__: self.stop().
KeyHandlerExit ==
    /\ listener' = "stopped"
    /\ released' = Append(released, "hook")

\* Leaving `with KeyHandler() as listener` with the exception in flight.
ExitListener ==
    /\ pc = "unwinding"
    /\ ctx # <<>> /\ ctx[Len(ctx)] = "hook"
    /\ KeyHandlerExit
    /\ ctx' = Pop(ctx)
    /\ UNCHANGED <<devvars, keyvars, pc, r_cam, v_cam, setup_calls,
                   raised_at, interrupted_at>>
    /\ UNCHANGED loopvars

\* Leaving `with pyvirtualcam.Camera(...) as v_cam`: the camera is closed.
ExitVCam ==
    /\ pc = "unwinding"
    /\ ctx # <<>> /\ ctx[Len(ctx)] = "sink"
    /\ v_cam' = "closed"
    /\ released' = Append(released, "sink")
    /\ ctx' = Pop(ctx)
    /\ UNCHANGED <<devvars, keyvars, pc, r_cam, listener, setup_calls,
                   raised_at, interrupted_at>>
    /\ UNCHANGED loopvars

\* VideoCapture.__exit__ (self.release()) / DepthaiCapture.__exit__
\* (self.close()).
ExitRCam ==
    /\ pc = "unwinding"
    /\ ctx # <<>> /\ ctx[Len(ctx)] = "capture"
    /\ r_cam' = "released"
    /\ released' = Append(released, "capture")
    /\ ctx' = Pop(ctx)
    /\ UNCHANGED <<devvars, keyvars, pc, v_cam, listener, setup_calls,
                   raised_at, interrupted_at>>
    /\ UNCHANGED loopvars

\* The exception leaves run() and ends the process: SystemExit with the
\* handler's status, anything else with status 1.
Terminate ==
    /\ pc = "unwinding"
    /\ ctx = <<>>
    /\ pc' = "terminated"
    /\ exit_status' = IF exc = "SystemExit" THEN 0 ELSE 1
    /\ UNCHANGED <<clivars, selections, type, available_devices_real, available_devices_virtual,
                   mapping, mapping_result, device_path, real_path,
                   virtual_path, printed, caller, dpc, exc>>
    /\ UNCHANGED <<ctx, r_cam, v_cam, listener, released, setup_calls,
                   raised_at, interrupted_at, keyvars>>
    /\ UNCHANGED loopvars

---------------------------------------------------------------------------
(* The command line: extra arguments (utils.py) *)

\* The words an extra argument list is made of: two flags, two values.
ArgTokens == { <<"-", "-", "n">>, <<"-", "-", "x">>, <<"B">>, <<"v">> }

\* ArgumentHandler.check
ArgumentCheck(args) ==
    IF Len(args) < 2 /\ Len(args) # 0 THEN "InvalidArgumentError"
    ELSE IF Len(args) % 2 # 0 THEN "InvalidArgumentError"
    ELSE "accepted"

\* ArgumentHandler.__init__: self.check(ctx_args)
ArgumentHandlerInit ==
    /\ check_result = "none"
    /\ check_result' = ArgumentCheck(ctx_args)
    /\ UNCHANGED <<ctx_args, dirs, plugin_list, name_option, prompt_name,
                   files, cpc>>
    /\ UNCHANGED <<type, available_devices_real, available_devices_virtual,
                   mapping, mapping_result, device_path, real_path,
                   virtual_path, printed, caller, dpc, exc, exit_status,
                   selections>>
    /\ UNCHANGED <<runvars, keyvars>>

---------------------------------------------------------------------------
(* Plugin discovery and create-plugin (plugins/plugin_utils.py, main.py) *)

\* Directory names found under the plugin directory: a dot directory, a
\* double-underscore directory, a single-underscore one and two plugins.
DirNames == { <<".", "g">>, <<"_", "_", "p">>, <<"_", "a">>, <<"f">>, <<"y">> }

\* A name no directory has yet.
NewNames == { <<"n">> }

\* str.startswith
StartsWith(name, prefix) ==
    Len(prefix) <= Len(name) /\ SubSeq(name, 1, Len(prefix)) = prefix

\* The test of _sortout's loop body.
SortedOut(name) == StartsWith(name, <<".">>) \/ StartsWith(name, <<"_", "_">>)

\* list.remove(x): the first element equal to x goes.
ListRemove(list, x) ==
    LET k == IndexOf(list, x)
    IN SubSeq(list, 1, k - 1) \o SubSeq(list, k + 1, Len(list))

\* `for d in dirs` over the list that the body shrinks: the iterator keeps
\* its position i and moves on by one after every element, removed or not.
RECURSIVE SortoutFrom(_, _)
SortoutFrom(list, i) ==
    IF i > Len(list) THEN list
    ELSE IF SortedOut(list[i]) THEN SortoutFrom(ListRemove(list, list[i]), i + 1)
    ELSE SortoutFrom(list, i + 1)

Sortout(list) == SortoutFrom(list, 1)

\* _check_plugin returns True for every directory.
CheckPlugin(name) == TRUE

\* search_plugins, on the directories the listing gave.
SearchPlugins ==
    /\ cpc = "idle"
    /\ plugin_list' = SelectSeq(Sortout(dirs), CheckPlugin)
    /\ cpc' = "searched"
    /\ UNCHANGED <<ctx_args, check_result, dirs, name_option, prompt_name,
                   files>>
    /\ UNCHANGED <<type, available_devices_real, available_devices_virtual,
                   mapping, mapping_result, device_path, real_path,
                   virtual_path, printed, caller, dpc, exc, exit_status,
                   selections>>
    /\ UNCHANGED <<runvars, keyvars>>

InList(x, list) == \E i \in DOMAIN list : list[i] = x

\* The plugin.py and __init__.py of a plugin directory as found on disk.
OriginalFiles == [plugin_py |-> <<"original">>, init_py |-> <<"original">>]

\* What create_plugin writes: the rendered template and an empty file.
RenderedFiles(name) == [plugin_py |-> <<"template">> \o name, init_py |-> <<>>]

AlreadyExists == <<"already exists">>
CreatedSuccessfully == <<"created successfully">>

\* create_plugin: the membership test on the --name option, then the
\* prompt when the option is missing, then the directory and its files.
CreatePlugin ==
    /\ cpc = "searched"
    /\ \E option \in {None} \cup DirNames \cup NewNames :
       \E entered \in DirNames \cup NewNames :
          /\ name_option' = option
          /\ IF InList(option, plugin_list)
             THEN /\ printed' = printed \o AlreadyExists
                  /\ cpc' = "exited"
                  /\ exit_status' = 0
                  /\ UNCHANGED <<prompt_name, files>>
             ELSE LET name == IF option = None THEN entered ELSE option
                  IN /\ prompt_name' = IF option = None THEN entered ELSE None
                     /\ files' = Put(files, name, RenderedFiles(name))
                     /\ printed' = printed \o CreatedSuccessfully
                     /\ cpc' = "created"
                     /\ UNCHANGED exit_status
    /\ UNCHANGED <<ctx_args, check_result, dirs, plugin_list>>
    /\ UNCHANGED <<type, available_devices_real, available_devices_virtual,
                   mapping, mapping_result, device_path, real_path,
                   virtual_path, caller, dpc, exc, selections>>
    /\ UNCHANGED <<runvars, keyvars>>

---------------------------------------------------------------------------
(* The device specification: enumeration results and the requested path   *)
(* are the inputs.                                                         *)

RealDevices(t) ==
    LET ids == IF t = WEBCAM THEN { WebcamPath(n) : n \in WebcamIds }
               ELSE DepthaiIds
    IN { [paths |-> p, labels |-> Map(RealLabel, p)] : p \in InjSeqs(ids, MaxReal) }

VirtualPath(i) == WebcamPath(20 + i)

VirtualDevices(t) ==
    LET labels == IF t = WEBCAM THEN WebcamLabels ELSE DepthaiLabels
    IN { [paths |-> [i \in DOMAIN l |-> VirtualPath(i)], labels |-> l] :
            l \in Seqs(labels, MaxVirtual) }

RequestedPaths(t) ==
    {None} \cup (IF t = WEBCAM THEN { WebcamPath(n) : n \in WebcamIds }
                 ELSE DepthaiIds)

\* No command-line command has run.
NoCommandLine ==
    /\ ctx_args = <<>>
    /\ check_result = "none"
    /\ dirs = <<>>
    /\ plugin_list = <<>>
    /\ name_option = None
    /\ prompt_name = None
    /\ files = <<>>
    /\ cpc = "idle"

InitDev ==
    /\ type \in {WEBCAM, DEPTHAI}
    /\ available_devices_real \in RealDevices(type)
    /\ available_devices_virtual \in VirtualDevices(type)
    /\ device_path \in RequestedPaths(type)
    /\ caller \in {"Runner", "init_device"}
    /\ mapping = <<>>
    /\ mapping_result = "none"
    /\ real_path = None
    /\ virtual_path = None
    /\ printed = <<>>
    /\ dpc = "start"
    /\ exc = "none"
    /\ exit_status = -1
    /\ selections = <<>>
    /\ NoCommandLine

\* Nothing of Runner.run has happened and no KeyHandler exists.
RunNotStarted ==
    /\ pc = "run"
    /\ ctx = <<>>
    /\ r_cam = "none"
    /\ v_cam = "none"
    /\ listener = "none"
    /\ released = <<>>
    /\ setup_calls = 0
    /\ raised_at = "none"
    /\ interrupted_at = "none"
    /\ raw = NoFrame
    /\ frame = NoFrame
    /\ get_frame_calls = 0
    /\ cam_prop = NoFrame
    /\ sink_shape = NoFrame
    /\ sent = 0
    /\ acq = NoAcquisition
    /\ ppc = "idle"
    /\ observed = <<>>

NoKeyEvents == toggles = [k \in HotkeyCombinations |-> 0]

NoKeyHandler ==
    /\ plugin_hotkeys = <<>>
    /\ flags = <<>>
    /\ hotkeys = <<>>
    /\ kh_error = "none"
    /\ NoKeyEvents

Init == InitDev /\ RunNotStarted /\ NoKeyHandler

Next == HandlerInit \/ InitDevice \/ GetDevice

Spec == Init /\ [][Next]_vars

\* The same, followed by the first steps of run(): the capture device and
\* the virtual sink are opened.
NextOpen == HandlerInit \/ InitDevice \/ GetDevice \/ Setup \/ OpenSink

SpecOpen == Init /\ [][NextOpen]_vars

\* The handler used directly: built, then init_device called twice.
NextTwice == HandlerInit \/ InitDevice \/ InitDeviceAgain

SpecTwice == Init /\ [][NextTwice]_vars

\* The handler is built and used while SIGINT may arrive.
NextSignal == HandlerInit \/ InitDevice \/ InterruptInInit \/ InterruptConstructed

SpecSignal == Init /\ [][NextSignal]_vars

---------------------------------------------------------------------------
(* The run specification: a Runner has been constructed for a selected    *)
(* pair, and run() is called.                                              *)

RunnerFor(t) ==
    LET real == IF t = WEBCAM
                THEN [paths |-> <<WebcamPath(0)>>,
                      labels |-> <<RealLabel(WebcamPath(0))>>]
                ELSE [paths |-> << <<"A", "1">> >>,
                      labels |-> << RealLabel(<<"A", "1">>) >>]
        virt == [paths |-> <<VirtualPath(1)>>,
                 labels |-> IF t = WEBCAM THEN << <<"C", "0">> >>
                            ELSE << <<"M", "A", "1">> >>]
    IN [real |-> real, virt |-> virt, map |-> DeviceMapping(t, real, virt).map]

InitRun ==
    /\ type \in {WEBCAM, DEPTHAI}
    /\ available_devices_real = RunnerFor(type).real
    /\ available_devices_virtual = RunnerFor(type).virt
    /\ mapping = RunnerFor(type).map
    /\ mapping_result = "returned"
    /\ device_path = mapping[1].path_real
    /\ caller = "Runner"
    /\ real_path = device_path
    /\ virtual_path = DeviceMapValue(mapping, device_path)
    /\ printed = <<>>
    /\ dpc = "selected"
    /\ exc = "none"
    /\ exit_status = -1
    /\ selections = <<Selection("selected", real_path, virtual_path)>>
    /\ NoCommandLine
    /\ RunNotStarted
    /\ plugin_hotkeys \in PluginDeclarations(type)
    /\ flags = <<>>
    /\ hotkeys = <<>>
    /\ kh_error = "none"
    /\ NoKeyEvents

NextRun ==
    \/ GetDevice \/ Setup \/ OpenSink \/ NewListener \/ ListenerStart
    \/ GetFrame \/ Iterate
    \/ (\E key \in HotkeyCombinations : Toggle(key))
    \/ Interrupt
    \/ ExitListener \/ ExitVCam \/ ExitRCam \/ Terminate

SpecRun == InitRun /\ [][NextRun]_vars

\* The interpreter goes on executing the main thread: an exception in
\* flight leaves the with-blocks one by one and then the process.
LiveRun ==
    /\ SpecRun
    /\ WF_vars(ExitListener) /\ WF_vars(ExitVCam) /\ WF_vars(ExitRCam)
    /\ WF_vars(Terminate)

---------------------------------------------------------------------------
(* The hotkey specification: a plugin's keyhandler() is built from its    *)
(* hotkey list, started, toggled and stopped.                              *)

InitKeysFor(declarable) ==
    /\ type = WEBCAM
    /\ available_devices_real = RunnerFor(type).real
    /\ available_devices_virtual = RunnerFor(type).virt
    /\ mapping = RunnerFor(type).map
    /\ mapping_result = "returned"
    /\ device_path = mapping[1].path_real
    /\ caller = "Runner"
    /\ real_path = device_path
    /\ virtual_path = DeviceMapValue(mapping, device_path)
    /\ printed = <<>>
    /\ dpc = "selected"
    /\ exc = "none"
    /\ exit_status = -1
    /\ selections = <<Selection("selected", real_path, virtual_path)>>
    /\ NoCommandLine
    /\ RunNotStarted
    /\ plugin_hotkeys \in Seqs(declarable, MaxPluginHotkeys)
    /\ flags = <<>>
    /\ hotkeys = <<>>
    /\ kh_error = "none"
    /\ NoKeyEvents

InitKeys == InitKeysFor(PluginHotkeys)

NextKeys ==
    \/ PluginKeyHandler
    \/ KeyStart
    \/ (\E key \in HotkeyCombinations : Toggle(key))
    \/ KeyStop

SpecKeys == InitKeys /\ [][NextKeys]_vars

\* The same for plugins whose flag names are names the handler object
\* uses itself.
InitAttributes == InitKeysFor(AttributeHotkeys)

SpecAttributes == InitAttributes /\ [][NextKeys]_vars

---------------------------------------------------------------------------
(* The command-line specifications: no handler has been built yet.        *)

NoHandler ==
    /\ type = WEBCAM
    /\ available_devices_real = [paths |-> <<>>, labels |-> <<>>]
    /\ available_devices_virtual = [paths |-> <<>>, labels |-> <<>>]
    /\ device_path = None
    /\ caller = "init_device"
    /\ mapping = <<>>
    /\ mapping_result = "none"
    /\ real_path = None
    /\ virtual_path = None
    /\ printed = <<>>
    /\ dpc = "start"
    /\ exc = "none"
    /\ exit_status = -1
    /\ selections = <<>>

\* A plugin command is invoked with extra arguments.
InitArgs ==
    /\ NoHandler
    /\ RunNotStarted
    /\ NoKeyHandler
    /\ ctx_args \in Seqs(ArgTokens, MaxArgs)
    /\ check_result = "none"
    /\ dirs = <<>>
    /\ plugin_list = <<>>
    /\ name_option = None
    /\ prompt_name = None
    /\ files = <<>>
    /\ cpc = "idle"

NextArgs == ArgumentHandlerInit

SpecArgs == InitArgs /\ [][NextArgs]_vars

\* main.py at import time, then the create-plugin command: the plugin
\* directory holds some directories, each with its files.
InitPlugins ==
    /\ NoHandler
    /\ RunNotStarted
    /\ NoKeyHandler
    /\ ctx_args = <<>>
    /\ check_result = "none"
    /\ dirs \in InjSeqs(DirNames, MaxDirs)
    /\ plugin_list = <<>>
    /\ name_option = None
    /\ prompt_name = None
    /\ files = [d \in { dirs[i] : i \in DOMAIN dirs } |-> OriginalFiles]
    /\ cpc = "idle"

NextPlugins == SearchPlugins \/ CreatePlugin

SpecPlugins == InitPlugins /\ [][NextPlugins]_vars

---------------------------------------------------------------------------
(* The process specification: a plugin that declares hotkeys builds its   *)
(* keyhandler, starts it, and process is called with it, frame after      *)
(* frame, while hotkey events arrive.                                      *)

InitProcess ==
    /\ type = WEBCAM
    /\ available_devices_real = RunnerFor(type).real
    /\ available_devices_virtual = RunnerFor(type).virt
    /\ mapping = RunnerFor(type).map
    /\ mapping_result = "returned"
    /\ device_path = mapping[1].path_real
    /\ caller = "Runner"
    /\ real_path = device_path
    /\ virtual_path = DeviceMapValue(mapping, device_path)
    /\ printed = <<>>
    /\ dpc = "selected"
    /\ exc = "none"
    /\ exit_status = -1
    /\ selections = <<Selection("selected", real_path, virtual_path)>>
    /\ NoCommandLine
    /\ RunNotStarted
    /\ plugin_hotkeys \in {TemplateHotkeys, FaceDetectionHotkeys}
    /\ flags = <<>>
    /\ hotkeys = <<>>
    /\ kh_error = "none"
    /\ NoKeyEvents

NextProcess ==
    \/ PluginKeyHandler
    \/ KeyStart
    \/ (\E key \in HotkeyCombinations : Toggle(key))
    \/ ProcessCall \/ ProcessRead \/ ProcessReturn

SpecProcess == InitProcess /\ [][NextProcess]_vars

---------------------------------------------------------------------------
(* Claims about correlation and selection *)

\* The position of the first digit of a label, 0 when it has none.
FirstDigitAt(label) ==
    IF \E i \in DOMAIN label : label[i] \in Digits
    THEN CHOOSE i \in DOMAIN label :
            label[i] \in Digits /\ \A k \in 1..(i - 1) : label[k] \notin Digits
    ELSE 0

EmbedsId(label) == FirstDigitAt(label) # 0

\* The first integer a label embeds: the digits from the first digit up to
\* the next non-digit.
EmbeddedId(label) ==
    LET a == FirstDigitAt(label)
        b == CHOOSE k \in a..Len(label) :
                /\ \A i \in a..k : label[i] \in Digits
                /\ (k = Len(label) \/ label[k + 1] \notin Digits)
    IN DecValue(SubSeq(label, a, b))

\* The trailing id of a physical webcam path.
TrailingId(path) == DecValue(Tail(path))

MappingRan == mapping_result # "none"

InitDeviceRan == mapping_result = "returned" /\ dpc # "constructed"

WebcamDeterminismCase ==
    /\ type = WEBCAM
    /\ MappingRan
    /\ \A i \in DOMAIN available_devices_virtual.labels :
          /\ EmbedsId(available_devices_virtual.labels[i])
          /\ \E k \in DOMAIN available_devices_real.paths :
                TrailingId(available_devices_real.paths[k])
                    = EmbeddedId(available_devices_virtual.labels[i])
    /\ \A i, k \in DOMAIN available_devices_virtual.labels :
          i # k => EmbeddedId(available_devices_virtual.labels[i])
                     # EmbeddedId(available_devices_virtual.labels[k])

\* C1: webcam family, distinct physical ids, distinct virtual ids that all
\* match a physical id: device_mapping returns one entry per virtual record,
\* entry i holds the i-th virtual record and the physical record whose
\* path id is the first integer of that virtual label.
C1_WebcamCorrelation ==
    WebcamDeterminismCase =>
        /\ mapping_result = "returned"
        /\ Len(mapping) = Len(available_devices_virtual.labels)
        /\ \A i \in DOMAIN mapping :
              /\ mapping[i].path_virtual = available_devices_virtual.paths[i]
              /\ mapping[i].label_virtual = available_devices_virtual.labels[i]
              /\ TrailingId(mapping[i].path_real)
                    = EmbeddedId(available_devices_virtual.labels[i])
              /\ \E k \in DOMAIN available_devices_real.paths :
                    /\ mapping[i].path_real = available_devices_real.paths[k]
                    /\ mapping[i].label_real = available_devices_real.labels[k]

\* Two virtual devices in an order other than that of their physical ones.
C1_Witness ==
    /\ WebcamDeterminismCase
    /\ Len(mapping) = 2
    /\ mapping[1].path_real = available_devices_real.paths[2]
    /\ mapping[2].path_real = available_devices_real.paths[1]

SomeVirtualIdUnmatched ==
    \E i \in DOMAIN available_devices_virtual.labels :
        /\ EmbedsId(available_devices_virtual.labels[i])
        /\ \A k \in DOMAIN available_devices_real.paths :
              TrailingId(available_devices_real.paths[k])
                  # EmbeddedId(available_devices_virtual.labels[i])

C3_DepthaiContainment ==
    (type = DEPTHAI /\ mapping_result = "returned") =>
        \A i \in DOMAIN mapping :
            IsSubstring(mapping[i].path_real, mapping[i].label_virtual)

\* C4: no physical path appears in two entries of a returned mapping.
C4_OnePerPhysical ==
    mapping_result = "returned" =>
        \A i, k \in DOMAIN mapping :
            i # k => mapping[i].path_real # mapping[k].path_real

\* C5: no path requested, mapping not empty: init_device returns the pair
\* of the first entry and the process goes on.
C5_AutoSelectReturns ==
    (InitDeviceRan /\ device_path = None /\ mapping # <<>>) =>
        /\ dpc = "selected"
        /\ exit_status = -1
        /\ real_path = mapping[1].path_real
        /\ virtual_path = mapping[1].path_virtual

RequestedMatches ==
    /\ device_path # None
    /\ \E i \in DOMAIN mapping : mapping[i].path_real = device_path

UnavailableCase ==
    \/ device_path # None /\ ~RequestedMatches
    \/ device_path = None /\ mapping = <<>>

\* C7: a requested path that no entry has, or no request and an empty
\* mapping: init_device prints the warning, the device tables and the
\* remediation commands and exits normally (SystemExit, status 0),
\* real_path stays unset and no capture device is opened.
C7_UnavailableExits ==
    (InitDeviceRan /\ UnavailableCase) =>
        /\ dpc = "exited"
        /\ exc = "SystemExit"
        /\ exit_status = 0
        /\ printed = <<"device_not_available", "available_devices",
                       "add_virtual_devices", "run_main_command">>
        /\ real_path = None
        /\ virtual_path = None
        /\ r_cam = "none"
        /\ ~ENABLED GetDevice

\* A requested physical device that exists but has no virtual counterpart,
\* beside one that has.
C7_Witness ==
    /\ InitDeviceRan
    /\ device_path # None
    /\ ~RequestedMatches
    /\ mapping # <<>>
    /\ \E k \in DOMAIN available_devices_real.paths :
          available_devices_real.paths[k] = device_path
    /\ dpc = "exited"

\* No request and nothing mapped.
C7_WitnessNone ==
    InitDeviceRan /\ device_path = None /\ mapping = <<>> /\ dpc = "exited"

---------------------------------------------------------------------------
(* Claims about the frame loop's resources *)

ReleaseOrder == <<"hook", "sink", "capture">>

IsPrefix(s, t) == Len(s) <= Len(t) /\ SubSeq(t, 1, Len(s)) = s

GetFrameRaised ==
    /\ raised_at = "get_frame"
    /\ exc \in {"RuntimeError", "UnboundLocalError"}

\* C8: get_frame raised in the loop: the hook, the sink and the capture
\* handle are released once each, in that order, and all three are
\* released when the exception has left run().
C8_ReleaseOnAcquireError ==
    GetFrameRaised =>
        /\ IsPrefix(released, ReleaseOrder)
        /\ pc = "terminated" =>
              /\ released = ReleaseOrder
              /\ listener = "stopped"
              /\ v_cam = "closed"
              /\ r_cam = "released"
              /\ exc \in {"RuntimeError", "UnboundLocalError"}

C8_Witness == GetFrameRaised /\ pc = "terminated" /\ released = ReleaseOrder

InterruptedInLoop == interrupted_at \in {"get_frame", "iterate"}

\* C9: a SIGINT delivered while the loop runs is handled by _interrupt,
\* the iteration in flight is abandoned, hook, sink and capture are
\* released in that order, and the process ends with status 0.
C9_InterruptStops ==
    /\ [](InterruptedInLoop =>
            /\ "device_stopped" \in { printed[i] : i \in DOMAIN printed }
            /\ pc \in {"unwinding", "terminated"}
            /\ IsPrefix(released, ReleaseOrder)
            /\ pc = "terminated" =>
                  /\ released = ReleaseOrder
                  /\ exit_status = 0)
    /\ (InterruptedInLoop ~> (pc = "terminated" /\ exit_status = 0))

\* The signal arrived after a frame was acquired, mid-iteration.
C9_Witness ==
    /\ interrupted_at = "iterate"
    /\ pc = "terminated"
    /\ released = ReleaseOrder
    /\ exit_status = 0

---------------------------------------------------------------------------
(* Claims about flag registration *)

AllHotkeys == DefaultHotkeys \o plugin_hotkeys

KeyHandlerRan == listener # "none" \/ kh_error # "none"

\* A flag whose name is that of an earlier one, under another key.
NameCollision ==
    \E i \in DOMAIN AllHotkeys : \E k \in 1..(i - 1) :
        /\ AllHotkeys[k].variable = AllHotkeys[i].variable
        /\ AllHotkeys[k].hotkey # AllHotkeys[i].hotkey

\* C10: a flag registered under the name of an earlier flag and another
\* key combination makes KeyHandler's construction raise ValueError, and
\* no hook is built.
C10_NameCollisionRaises ==
    (KeyHandlerRan /\ NameCollision) =>
        /\ kh_error = "ValueError"
        /\ listener = "none"

\* A flag bound to the key combination of an earlier flag of another name.
KeyCollision ==
    \E i \in DOMAIN AllHotkeys : \E k \in 1..(i - 1) :
        /\ AllHotkeys[k].hotkey = AllHotkeys[i].hotkey
        /\ AllHotkeys[k].variable # AllHotkeys[i].variable

\* The first flag declared for the key combination of AllHotkeys[i].
FirstBound(i) ==
    AllHotkeys[CHOOSE k \in 1..i :
                  /\ AllHotkeys[k].hotkey = AllHotkeys[i].hotkey
                  /\ \A j \in 1..(k - 1) :
                        AllHotkeys[j].hotkey # AllHotkeys[i].hotkey]

\* C11: a flag declared with the key combination string of an earlier
\* flag and another name makes KeyHandler's construction raise ValueError,
\* no hook is built, and every key combination registered so far is still
\* bound to the flag that was declared for it first.
C11_KeyCollisionRaises ==
    (KeyHandlerRan /\ KeyCollision) =>
        /\ kh_error = "ValueError"
        /\ listener = "none"
        /\ \A i \in DOMAIN AllHotkeys :
              AllHotkeys[i].hotkey \in DOMAIN hotkeys =>
                 hotkeys[AllHotkeys[i].hotkey] = TriggerFunc(FirstBound(i).variable)

\* The plugin declares a flag on the default mirror key under a new name.
C11_Witness ==
    /\ KeyHandlerRan
    /\ KeyCollision
    /\ kh_error = "ValueError"
    /\ \E i \in DOMAIN plugin_hotkeys :
          /\ plugin_hotkeys[i].hotkey = "<ctrl>+<alt>+m"
          /\ plugin_hotkeys[i].variable = "z_trigger"
    /\ hotkeys["<ctrl>+<alt>+m"] = TriggerFunc("mirror")

Odd(n) == n % 2 = 1

\* C12: once the flags are registered, each declared flag holds its
\* initial value XOR (the number of events of its hotkey is odd),
\* whatever events the other hotkeys received.
C12_ToggleParity ==
    (listener \in {"started", "stopped"} /\ kh_error = "none") =>
        \A i \in DOMAIN AllHotkeys :
            flags[AllHotkeys[i].variable] =
                (AllHotkeys[i].enabled # Odd(toggles[AllHotkeys[i].hotkey]))

---------------------------------------------------------------------------
(* Claims about acquisition *)

\* C13: a frame get_frame returned has height min(h, 720) and width
\* min(w, 1280) of the delivered image: an axis over its ceiling is cut
\* to the ceiling, an axis at or under it is unchanged, for both backends.
C13_FrameWithinCeiling ==
    frame # NoFrame =>
        /\ raw.h > 720 => frame.h = 720
        /\ raw.h <= 720 => frame.h = raw.h
        /\ raw.w > 1280 => frame.w = 1280
        /\ raw.w <= 1280 => frame.w = raw.w
        /\ frame.h <= 720 /\ frame.w <= 1280

\* Only the height is over its ceiling: only the height is reduced.
C13_Witness ==
    /\ pc = "iterate"
    /\ raw = [h |-> 721, w |-> 640]
    /\ frame = [h |-> 720, w |-> 640]

\* The last read of the webcam reported that no frame was grabbed.
ReadFailed == type = WEBCAM /\ get_frame_calls > 0 /\ ~acq.rgb

\* C14: webcam: a read that grabbed nothing makes get_frame raise
\* RuntimeError, which leaves the loop; from then on get_frame is not
\* called again and nothing is sent.
C14_FailedReadIsFatal ==
    /\ [](ReadFailed =>
            /\ exc = "RuntimeError"
            /\ raised_at = "get_frame"
            /\ pc \in {"unwinding", "terminated"})
    /\ [][ReadFailed =>
            /\ get_frame_calls' = get_frame_calls
            /\ sent' = sent]_vars

C14_Witness ==
    /\ ReadFailed
    /\ pc = "terminated"
    /\ exc = "RuntimeError"
    /\ get_frame_calls = 1

\* The last depthai acquisition found a frame and no detection batch.
FrameWithoutDetections ==
    type = DEPTHAI /\ get_frame_calls > 0 /\ acq.rgb /\ ~acq.det

\* C15: depthai: with a frame and no detection batch available the
\* acquisition returns the frame, without raising and without waiting
\* for a batch.
C15_DetectionsBestEffort ==
    FrameWithoutDetections =>
        /\ acq.returned
        /\ ~acq.waited
        /\ ~(exc = "UnboundLocalError" /\ raised_at = "get_frame")

\* C16: depthai: setup has run exactly once when run() has passed it,
\* in particular at every get_frame call; webcam: setup never runs.
C16_SetupOnce ==
    /\ setup_calls <= 1
    /\ type = WEBCAM => setup_calls = 0
    /\ (type = DEPTHAI /\ get_frame_calls > 0) => setup_calls = 1
    /\ (type = DEPTHAI /\ pc \in {"open_sink", "new_listener", "start",
                                   "get_frame", "iterate"}) => setup_calls = 1

C16_Witness ==
    /\ type = DEPTHAI
    /\ get_frame_calls = 1
    /\ setup_calls = 1
    /\ pc = "iterate"

---------------------------------------------------------------------------
(* Claims about the order of selection and opening *)

SomethingOpened == r_cam # "none" \/ v_cam # "none"

\* C17: a capture device or a sink is opened only after enumeration,
\* correlation and selection have ended with a pair that is an entry of
\* the mapping; when one of them raised or exited, nothing was opened.
C17_SelectBeforeOpen ==
    /\ SomethingOpened =>
          /\ dpc = "selected"
          /\ mapping_result = "returned"
          /\ \E i \in DOMAIN mapping :
                /\ mapping[i].path_real = real_path
                /\ mapping[i].path_virtual = virtual_path
    /\ dpc # "selected" => ~SomethingOpened

C17_Witness ==
    /\ r_cam = "open"
    /\ v_cam = "open"
    /\ dpc = "selected"
    /\ Len(mapping) = 2

---------------------------------------------------------------------------
(* Claims about the flags the frame loop uses *)

HookInstalled == listener \in {"constructed", "started"} /\ pc # "run"

\* C18: the registry the frame loop installs holds the default flags and
\* every flag the plugin declares, each bound to its key combination and,
\* before any hotkey event, at its declared initial value.
C18_RegistryHasPluginFlags ==
    HookInstalled =>
        \A i \in DOMAIN AllHotkeys :
            /\ AllHotkeys[i].variable \in DOMAIN flags
            /\ AllHotkeys[i].hotkey \in DOMAIN hotkeys
            /\ TotalToggles(toggles, DOMAIN toggles) = 0
                  => flags[AllHotkeys[i].variable] = AllHotkeys[i].enabled

\* C19: within one call of process, all decisions on the same flag see
\* the same value of it, whatever hotkey events arrive meanwhile.
C19_OneReadPerIteration ==
    \A i, k \in DOMAIN observed :
        observed[i].name = observed[k].name
            => observed[i].value = observed[k].value

\* C20: the step in which get_frame or the loop body raises sends
\* nothing, nothing is sent once an exception is in flight, and the
\* frames sent never outnumber the iterations that completed.
C20_NoSendAfterRaise ==
    /\ [][exc' # exc => sent' = sent]_vars
    /\ [][exc # "none" => sent' = sent]_vars
    /\ [](/\ sent <= get_frame_calls
          /\ pc = "iterate" => sent < get_frame_calls)

\* The depthai acquisition raised in the first iteration.
C20_Witness ==
    /\ exc = "UnboundLocalError"
    /\ raised_at = "get_frame"
    /\ pc = "terminated"
    /\ get_frame_calls = 1
    /\ sent = 0

---------------------------------------------------------------------------
(* Claims about repeated selection *)

\* C21: two calls of init_device with the same argument on one handler
\* end the same way, leave the same real_path and return the same virtual
\* path, and no call changes the mapping or the enumerations.
C21_SelectionIdempotent ==
    /\ [](Len(selections) = 2 => selections[1] = selections[2])
    /\ [][selections' # selections =>
            UNCHANGED <<mapping, available_devices_real,
                        available_devices_virtual>>]_vars

\* The requested device was selected twice, from a mapping of two entries.
C21_Witness ==
    /\ Len(selections) = 2
    /\ selections[2].outcome = "selected"
    /\ selections[2].real = device_path
    /\ selections[2].returned = virtual_path
    /\ Len(mapping) = 2

---------------------------------------------------------------------------
(* Claims about the command line *)

IsFlag(word) == Len(word) > 2 /\ word[1] = "-" /\ word[2] = "-"

\* The list is made of a flag followed by a value, zero or more times.
ExactPairs(args) ==
    /\ Len(args) % 2 = 0
    /\ \A i \in DOMAIN args :
          IF i % 2 = 1 THEN IsFlag(args[i]) ELSE ~IsFlag(args[i])

\* C22: check accepts a list exactly when it is made of `--flag value`
\* pairs, and rejects every other list with InvalidArgumentError.
C22_ExactPairsOnly ==
    check_result # "none" =>
        /\ ExactPairs(ctx_args) => check_result = "accepted"
        /\ ~ExactPairs(ctx_args) => check_result = "InvalidArgumentError"

---------------------------------------------------------------------------
(* Claims about what a hotkey event changes *)

\* C23: a hotkey event flips the flag its key combination was registered
\* for and changes no other flag, not the registry and nothing of the
\* frame loop; and a declared flag changes only in a step that delivers
\* an event for its own key combination.
C23_ToggleFrame ==
    /\ [][toggles' # toggles =>
            /\ \E key \in DOMAIN hotkeys :
                  /\ toggles' = [toggles EXCEPT ![key] = @ + 1]
                  /\ flags' = [flags EXCEPT ![hotkeys[key].of] = ~@]
            /\ UNCHANGED <<hotkeys, plugin_hotkeys, kh_error, devvars,
                           runvars>>]_vars
    /\ [][(listener = "started" /\ listener' = "started") =>
            \A i \in DOMAIN AllHotkeys :
                flags'[AllHotkeys[i].variable] # flags[AllHotkeys[i].variable]
                    => toggles'[AllHotkeys[i].hotkey]
                          # toggles[AllHotkeys[i].hotkey]]_vars

\* C24: a Runner constructed with device_path omitted (None) does not raise:
\* once its constructor has acted, no exception is pending, the handler of
\* the family has been built (the mapping was computed), and init_device is
\* what follows.
C24_RunnerDefaultPath ==
    (caller = "Runner" /\ device_path = None /\ dpc # "start")
        => /\ exc # "AttributeError"
           /\ mapping_result # "none"

\* C28: device_mapping ends in a documented outcome only: it returns a
\* mapping, performs the webcam mismatch print-and-exit, or raises
\* NotImplementedError; never an uncaught index or lookup error.
C28_DocumentedOutcomes ==
    mapping_result \in {"none", "returned", "mismatch_exit", "NotImplementedError"}

\* C25: once search_plugins has run, the plugin list holds no directory
\* whose name starts with '.' or '__', and holds every other directory of
\* the listing.
C25_SortoutComplete ==
    cpc # "idle" =>
        /\ \A i \in DOMAIN plugin_list : ~SortedOut(plugin_list[i])
        /\ \A i \in DOMAIN dirs :
              ~SortedOut(dirs[i]) => InList(dirs[i], plugin_list)

\* C26: when create_plugin has ended for a name that is in the plugin
\* list, given as the option or entered at the prompt, that plugin's files
\* are as they were and the command took the 'already exists' exit.
C26_NoOverwrite ==
    \A i \in DOMAIN plugin_list :
        (/\ cpc \in {"created", "exited"}
         /\ plugin_list[i] \in {name_option, prompt_name})
            => /\ files[plugin_list[i]] = OriginalFiles
               /\ cpc = "exited"

\* C27: a SIGINT delivered after the interrupt handler is installed, at
\* any moment of the construction, is an orderly stop: the handler raises
\* nothing but the exit request and the process ends with status 0.
C27_InterruptOrderly ==
    (interrupted_at \in {"device_mapping", "constructed"})
        => /\ exc = "SystemExit"
           /\ exit_status = 0

C30_HandlerIntact ==
    flags # <<>> =>
        /\ \A name \in DOMAIN HandlerAttributes :
              GetAttr(flags, name) = HandlerAttributes[name]
        /\ kh_error # "TypeError"

====
